---- MODULE Spec2Model ----
(***************************************************************************)
(* A model of the multi-user personal-finance ledger of src/main.py: the  *)
(* auth db, the per-user storage files, the browsers' pf_auth cookie, the *)
(* per-session st.session_state, and one action per interaction handler. *)
(*                                                                         *)
(* Text is modelled as a sequence of one-character strings, so that       *)
(* strip(), lower(), re.sub() and split("|") are computed character by    *)
(* character. The module is ASCII: the characters of the two canonical    *)
(* type words are written "shou","ru" and "zhi","chu".                    *)
(***************************************************************************)
EXTENDS Integers, Sequences, FiniteSets, TLC

VARIABLES
    auth_db,        \* data/auth_users.json: username -> {salt, hash, session_token_hash}
    disk,           \* data/users/<dir>/: records.csv, budgets.csv, config.json
    cookie,         \* the pf_auth cookie held by the browser of each session
    session_state,  \* st.session_state of each session
    token_ctr,      \* how many raw tokens secrets.token_urlsafe has handed out
    issued,         \* history: the <<username, raw token>> pairs given out in cookies
    max_assigned,   \* history: per user, the highest ID ever given to an entry
    live,           \* history: per user, the raw token issued last and not cleared since
    auto_login,     \* history: what try_cookie_auto_login did in each session's first run
    logged_out,     \* history: the <<username, raw token>> cookies whose session ran logout
    run_db,         \* the db a running login_panel has read with load_auth_db, per session
    arg,            \* the argument of a pure-function call (parse_amount, normalize_type)
    ret             \* <<>> before the call, <<result>> after it

sys_vars ==
    <<auth_db, disk, cookie, session_state, token_ctr, issued, max_assigned, live,
      auto_login, logged_out, run_db>>
pure == <<arg, ret>>
\* every variable but run_db
other_vars ==
    <<auth_db, disk, cookie, session_state, token_ctr, issued, max_assigned, live,
      auto_login, logged_out, arg, ret>>
vars ==
    <<auth_db, disk, cookie, session_state, token_ctr, issued, max_assigned, live,
      auto_login, logged_out, run_db, arg, ret>>

(***************************************************************************)
(* Bounds of the model                                                     *)
(***************************************************************************)
MaxAmtLen == 4      \* longest amount text given to parse_amount
MaxTypeLen == 3     \* longest type text given to normalize_type
MaxId == 2          \* entries are created while next_id() stays within MaxId
MaxTokens == 2      \* remember-me logins are taken while fewer tokens were issued

(***************************************************************************)
(* Text helpers                                                            *)
(***************************************************************************)
\* all texts over alphabet A of length 0..n
Texts(A, n) == UNION {[1..k -> A] : k \in 0..n}

IsSpace(c) == c = " "

RECURSIVE LStrip(_)
LStrip(s) == IF s /= <<>> /\ IsSpace(Head(s)) THEN LStrip(Tail(s)) ELSE s

RECURSIVE RStrip(_)
RStrip(s) ==
    IF s /= <<>> /\ IsSpace(s[Len(s)]) THEN RStrip(SubSeq(s, 1, Len(s) - 1)) ELSE s

\* str.strip()
Strip(s) == RStrip(LStrip(s))

\* str.lower(), one character
LowerChar(c) ==
    CASE c = "A" -> "a"
      [] c = "B" -> "b"
      [] c = "I" -> "i"
      [] c = "N" -> "n"
      [] c = "O" -> "o"
      [] c = "U" -> "u"
      [] c = "T" -> "t"
      [] OTHER -> c

\* str.lower()
Lower(s) == [i \in 1..Len(s) |-> LowerChar(s[i])]

RECURSIVE Pow10(_)
Pow10(n) == IF n = 0 THEN 1 ELSE 10 * Pow10(n - 1)

(***************************************************************************)
(* parse_amount (src/main.py 270-277)                                      *)
(***************************************************************************)
Digits == {"0", "1", "2", "3", "4", "5", "6", "7", "8", "9"}

DigitVal(c) ==
    CASE c = "0" -> 0 [] c = "1" -> 1 [] c = "2" -> 2 [] c = "3" -> 3
      [] c = "4" -> 4 [] c = "5" -> 5 [] c = "6" -> 6 [] c = "7" -> 7
      [] c = "8" -> 8 [] c = "9" -> 9

\* the characters re.sub(r"[^\d\.\-]", "", s) keeps
IsAmountChar(c) == c \in Digits \/ c = "." \/ c = "-"

\* value of a text of digits, the empty text counting 0
RECURSIVE DigitsVal(_)
DigitsVal(s) ==
    IF s = <<>> THEN 0
    ELSE 10 * DigitsVal(SubSeq(s, 1, Len(s) - 1)) + DigitVal(s[Len(s)])

AllDigits(s) == \A i \in 1..Len(s) : s[i] \in Digits

\* the position of the first "." of s, 0 when there is none
FirstDot(s) ==
    IF \E i \in 1..Len(s) : s[i] = "."
    THEN CHOOSE i \in 1..Len(s) : s[i] = "." /\ \A j \in 1..(i - 1) : s[j] /= "."
    ELSE 0

\* A float is modelled as an integer count of units of 10^-AmountScale.
AmountScale == MaxAmtLen + 1
Unit == Pow10(AmountScale)

\* the outcome of a call that may raise: a value, or the exception
Return(v) == [raised |-> FALSE, value |-> v]
ValueError == [raised |-> TRUE, value |-> 0]

\* float(clean) for a text of digits, "." and "-": Python accepts an optional
\* leading sign, then digits with at most one "." and at least one digit;
\* anything else raises ValueError.
PyFloat(clean) ==
    LET neg  == clean /= <<>> /\ Head(clean) = "-"
        body == IF neg THEN Tail(clean) ELSE clean
        dot  == FirstDot(body)
        ip   == IF dot = 0 THEN body ELSE SubSeq(body, 1, dot - 1)
        fp   == IF dot = 0 THEN <<>> ELSE SubSeq(body, dot + 1, Len(body))
        ok   == AllDigits(ip) /\ AllDigits(fp) /\ Len(ip) + Len(fp) > 0
        mag  == DigitsVal(ip) * Unit + DigitsVal(fp) * Pow10(AmountScale - Len(fp))
    IN  IF ~ok THEN ValueError
        ELSE IF neg THEN Return(0 - mag) ELSE Return(mag)

parse_amount(s) ==
    LET t     == Strip(s)
        clean == SelectSeq(t, IsAmountChar)
    IN  IF t = <<>> THEN Return(0)
        ELSE IF clean \in {<<>>, <<"-">>, <<".">>, <<"-", ".">>} THEN Return(0)
        ELSE PyFloat(clean)

(***************************************************************************)
(* normalize_type (src/main.py 280-286)                                    *)
(***************************************************************************)
INCOME == <<"shou", "ru">>       \* the canonical income value
EXPENSE == <<"zhi", "chu">>      \* the canonical expense value
UNKNOWN == <<>>                  \* the empty result

IncomeSynonyms ==
    { INCOME, <<"i","n","c","o","m","e">>, <<"i","n">>, <<"+">>,
      <<"e","a","r","n","i","n","g">>, <<"e","a","r","n","i","n","g","s">>,
      <<"shou">> }

ExpenseSynonyms ==
    { EXPENSE, <<"e","x","p","e","n","s","e">>, <<"o","u","t">>, <<"-">>,
      <<"s","p","e","n","d">>, <<"s","p","e","n","d","i","n","g">>, <<"zhi">> }

\* s occurs in t as a contiguous run
Contains(t, s) ==
    \E i \in 1..(Len(t) - Len(s) + 1) : SubSeq(t, i, i + Len(s) - 1) = s

\* a normalizer that matches a synonym anywhere in the text
normalize_type_substring(t0) ==
    LET t == Lower(Strip(t0))
    IN  IF \E w \in IncomeSynonyms : Contains(t, w) THEN INCOME
        ELSE IF \E w \in ExpenseSynonyms : Contains(t, w) THEN EXPENSE
        ELSE UNKNOWN

normalize_type(t0) ==
    LET t == Lower(Strip(t0))
    IN  IF t \in IncomeSynonyms THEN INCOME
        ELSE IF t \in ExpenseSynonyms THEN EXPENSE
        ELSE UNKNOWN

(***************************************************************************)
(* Security: usernames, password hashing, token signing (src/main.py 94-152)*)
(***************************************************************************)
\* None and "" alike: the code only ever tests them for truth
None == <<>>

\* [A-Za-z0-9_], over the letters the model's texts use
WordChars ==
    {"a", "b", "i", "n", "o", "u", "t", "A", "B", "I", "N", "O", "U", "T", "_"}
        \cup Digits

IsWordChar(c) == c \in WordChars

normalize_username(u) == Lower(SelectSeq(Strip(u), IsWordChar))

\* PBKDF2-HMAC-SHA256 of password + APP_SECRET under the salt: the digest is
\* determined by, and taken to determine, the pair (password, salt).
pbkdf2_hash_password(password, salt) ==
    [salt |-> salt, hash |-> <<"pbkdf2", password, salt>>]

verify_password(password, salt, hash) ==
    pbkdf2_hash_password(password, salt).hash = hash

\* HMAC-SHA256 hexdigest of the message under APP_SECRET: a text without "|",
\* determined by, and taken to determine, the message.
sign_token(raw_token) ==
    <<"hmac">> \o [i \in 1..Len(raw_token) |->
                      IF raw_token[i] = "|" THEN ":" ELSE raw_token[i]]

\* a cookie whose signature covers the token alone
make_session_cookie_value_token_sig(username, raw_token) ==
    username \o <<"|">> \o raw_token \o <<"|">> \o sign_token(raw_token)

make_session_cookie_value(username, raw_token) ==
    LET sig == sign_token(username \o <<"|">> \o raw_token)
    IN  username \o <<"|">> \o raw_token \o <<"|">> \o sig

\* the position of the first "|" of v, 0 when there is none
FirstBar(v) ==
    IF \E i \in 1..Len(v) : v[i] = "|"
    THEN CHOOSE i \in 1..Len(v) : v[i] = "|" /\ \A j \in 1..(i - 1) : v[j] /= "|"
    ELSE 0

\* v.split("|")
RECURSIVE Split(_)
Split(v) ==
    IF FirstBar(v) = 0 THEN <<v>>
    ELSE <<SubSeq(v, 1, FirstBar(v) - 1)>> \o Split(SubSeq(v, FirstBar(v) + 1, Len(v)))

\* a parser that does not compare the signature
parse_session_cookie_value_unsigned(v) ==
    LET parts == Split(v)
    IN  IF Len(parts) /= 3 THEN <<None, None>> ELSE <<parts[1], parts[2]>>

\* (username, raw_token), or (None, None)
parse_session_cookie_value(v) ==
    LET parts == Split(v)
    IN  IF Len(parts) /= 3 THEN <<None, None>>
        ELSE IF sign_token(parts[1] \o <<"|">> \o parts[2]) /= parts[3]
             THEN <<None, None>>
             ELSE <<parts[1], parts[2]>>

\* the n-th value of secrets.token_urlsafe(24): url-safe text, and no two
\* draws are taken to collide
RawToken(n) == <<"t", ToString(n)>>

\* sha256 hexdigest of raw + APP_SECRET
TokenHash(raw) == <<"sha256">> \o raw

\* the auth db after the rotation (its save included); the issue time, which
\* nothing reads, is left out
create_or_rotate_session_token(db, username, raw) ==
    [db EXCEPT ![username].session_token_hash = TokenHash(raw)]

\* a verification that accepts any token of a known user
verify_session_token_any(db, username, raw_token) == username \in DOMAIN db

verify_session_token(db, username, raw_token) ==
    IF username \notin DOMAIN db THEN FALSE
    ELSE IF db[username].session_token_hash = <<>> THEN FALSE
    ELSE db[username].session_token_hash = TokenHash(raw_token)

(***************************************************************************)
(* User-scoped storage (src/main.py 158-260)                               *)
(***************************************************************************)
\* A file: absent, zero bytes long (as Path.touch leaves it), or a table.
Absent == [kind |-> "absent", rows |-> <<>>]
ZeroByte == [kind |-> "zero", rows |-> <<>>]
Table(rows) == [kind |-> "table", rows |-> rows]

\* config.json, when it exists; the avatar is stored and read exactly as the
\* nickname is and is left out
Config(init_balance, nickname) ==
    [kind |-> "json", init_balance |-> init_balance, nickname |-> nickname]

NoConfig == [kind |-> "absent", init_balance |-> 0, nickname |-> <<>>]

\* a user directory holding nothing
NoFiles == [records |-> Absent, budgets |-> Absent, config |-> NoConfig]

NaT == "NaT"        \* a date pd.to_datetime(errors="coerce") cannot read

\* A row is a record with fields among ID, date, item, amount, type; a cell
\* that is missing (NaN, None) is a field the record does not have. "item"
\* stands for the three text columns (book, category, item), which every
\* function treats alike.
Cell(r, k, default) == IF k \in DOMAIN r THEN r[k] ELSE default

\* to_csv then read_csv of one row: an empty text cell is read back missing
CsvRow(r) ==
    IF r.item = <<>>
    THEN [ID |-> r.ID, date |-> r.date, amount |-> r.amount, type |-> r.type]
    ELSE r

ToCsv(rows) == Table([i \in 1..Len(rows) |-> CsvRow(rows[i])])

\* read_csv raises EmptyDataError on a file of zero bytes
LoadRaises(file) == file.kind = "zero"

\* the rows of an existing table, no rows when the file is absent
load_csv(file) == file.rows

HasDate(r) == Cell(r, "date", NaT) /= NaT

\* a cleaning that keeps whatever type the row has
CleanRowKeepType(r) ==
    [ID     |-> r.ID,
     date   |-> r.date,
     item   |-> IF Cell(r, "item", <<>>) \in {<<"n","a","n">>, <<"N","o","n","e">>}
                THEN <<>> ELSE Cell(r, "item", <<>>),
     amount |-> Cell(r, "amount", 0),
     type   |-> Cell(r, "type", <<>>)]

\* one row of prepare_for_editor's result (lines 192-203)
CleanRow(r) ==
    [ID     |-> r.ID,
     date   |-> r.date,
     item   |-> IF Cell(r, "item", <<>>) \in {<<"n","a","n">>, <<"N","o","n","e">>}
                THEN <<>> ELSE Cell(r, "item", <<>>),
     amount |-> Cell(r, "amount", 0),
     type   |-> IF Cell(r, "type", <<>>) \in {INCOME, EXPENSE}
                THEN r.type ELSE EXPENSE]

prepare_for_editor(df) ==
    LET x == SelectSeq(df, HasDate)
    IN  [i \in 1..Len(x) |-> CleanRow(x[i])]

load_user_config(config, username) ==
    IF config.kind = "absent"
    THEN [init_balance |-> 0, nickname |-> username]
    ELSE [init_balance |-> config.init_balance, nickname |-> config.nickname]

\* ensure_user_storage: touch the two csv files, write a default config.json
\* when there is none
ensure_user_storage(d, username) ==
    [records |-> IF d.records.kind = "absent" THEN ZeroByte ELSE d.records,
     budgets |-> IF d.budgets.kind = "absent" THEN ZeroByte ELSE d.budgets,
     config  |-> IF d.config.kind = "absent" THEN Config(0, username) ELSE d.config]

\* persist_user_state on the user's directory d from session ss. failAt names
\* the write that raises: 1 records.csv, 2 budgets.csv, 3 config.json, 0 none;
\* the writes before it are done, it and the ones after it are not.
persist_user_state(d, ss, username, failAt) ==
    LET cfg == load_user_config(d.config, username)
    IN  [records |-> IF failAt = 1 THEN d.records ELSE ToCsv(ss.records),
         budgets |-> IF failAt \in {1, 2} THEN d.budgets ELSE Table(ss.budgets),
         config  |-> IF failAt \in {1, 2, 3} THEN d.config
                     ELSE Config(ss.init_balance, cfg.nickname)]

Ids(df) == {df[i].ID : i \in 1..Len(df)}

SetMax(S) == CHOOSE m \in S : \A x \in S : x <= m

\* an ID taken from the number of entries instead of the highest ID
next_id_count(df) == Len(df) + 1

next_id(df) == IF df = <<>> THEN 1 ELSE SetMax(Ids(df)) + 1

(***************************************************************************)
(* Sessions                                                                *)
(***************************************************************************)
Sessions == {"s1", "s2"}

\* the usernames normalize_username can return for the names typed
Usernames == {<<"a">>, <<"b">>}

\* USERS_DIR / username (lines 158-161)
user_dir(username) == <<"data", "/", "users", "/">> \o username

Dirs == {user_dir(u) : u \in Usernames}

\* names typed into the login and register forms, and put into cookies
UsernameInputs == {<<"a">>, <<"A", " ">>, <<"b">>, <<"!">>}

PasswordInputs == {"secret1", "secret2", "short"}

Salts == {"salt1"}      \* secrets.token_bytes(16), hex

Dates == {"d1", "d2"}

\* try_cookie_auto_login returned without asking the auth db about a token
\* a script run that has not called load_auth_db, and one that holds its result
NotLoaded == <<>>
Loaded(db) == <<db>>

NoAutoLogin == [outcome |-> "none", issued |-> FALSE]

\* a session before its first script run
NewSession ==
    [authed_user   |-> None,
     show_login    |-> FALSE,
     cookie_checked |-> FALSE,
     loaded        |-> FALSE,      \* "records" in st.session_state
     records       |-> <<>>,
     budgets       |-> <<>>,
     init_balance  |-> 0,
     nickname      |-> <<>>]

\* load_user_state from the user's directory d; read_csv raising leaves the
\* session without its ledger
load_user_state(ss, d, username) ==
    IF LoadRaises(d.records) \/ LoadRaises(d.budgets) THEN ss
    ELSE [ss EXCEPT
            !.loaded = TRUE,
            !.records = prepare_for_editor(load_csv(d.records)),
            !.budgets = load_csv(d.budgets),
            !.init_balance = load_user_config(d.config, username).init_balance,
            !.nickname = load_user_config(d.config, username).nickname]

\* login(username)
login(ss, d, username) ==
    load_user_state([ss EXCEPT !.authed_user = username], d, username)

\* the keys logout pops, and what it sets
logout(ss) ==
    [ss EXCEPT
        !.authed_user = None,
        !.loaded = FALSE,
        !.records = <<>>,
        !.budgets = <<>>,
        !.init_balance = 0,
        !.nickname = <<>>,
        !.show_login = FALSE]

\* a script run of session s gets past try_cookie_auto_login
Running(s) == session_state[s].cookie_checked

\* the run reaches the ledger: a user is logged in and the ledger is loaded
InLedger(s) ==
    /\ Running(s)
    /\ session_state[s].authed_user /= None
    /\ session_state[s].loaded

USERNAME(s) == session_state[s].authed_user

(***************************************************************************)
(* Authentication actions                                                  *)
(***************************************************************************)
\* The first script run of a new session in the browser of s:
\* try_cookie_auto_login with the cookie the browser holds.
OpenSession(s) ==
    LET v        == cookie[s]
        parsed   == parse_session_cookie_value(v)
        username == normalize_username(parsed[1])
        fresh    == [NewSession EXCEPT !.cookie_checked = TRUE]
        asked    == /\ v /= <<>>
                    /\ parsed[1] /= None /\ parsed[2] /= None
                    /\ username /= None /\ username \in DOMAIN auth_db
        was_issued == <<parsed[1], parsed[2]>> \in issued
    IN
    /\ IF ~asked
       THEN /\ session_state' = [session_state EXCEPT ![s] = fresh]
            /\ auto_login' = [auto_login EXCEPT ![s] = NoAutoLogin]
            /\ UNCHANGED <<disk, cookie>>
       ELSE IF verify_session_token(auth_db, username, parsed[2])
       THEN /\ disk' = [disk EXCEPT ![user_dir(username)] = ensure_user_storage(@, username)]
            /\ session_state' =
                   [session_state EXCEPT ![s] = login(fresh, disk'[user_dir(username)], username)]
            /\ auto_login' = [auto_login EXCEPT
                                ![s] = [outcome |-> "login", issued |-> was_issued]]
            /\ UNCHANGED cookie
       ELSE /\ session_state' = [session_state EXCEPT ![s] = fresh]
            /\ cookie' = [cookie EXCEPT ![s] = <<>>]
            /\ auto_login' = [auto_login EXCEPT
                                ![s] = [outcome |-> "delete", issued |-> was_issued]]
            /\ UNCHANGED disk
    /\ UNCHANGED <<auth_db, token_ctr, issued, max_assigned, live, logged_out, run_db, pure>>

\* the "login / register" button of the top bar
ShowLogin(s) ==
    /\ Running(s)
    /\ session_state[s].authed_user = None
    /\ ~session_state[s].show_login
    /\ session_state' = [session_state EXCEPT ![s].show_login = TRUE]
    /\ UNCHANGED <<auth_db, disk, cookie, token_ctr, issued, max_assigned, live,
                   auto_login, logged_out, run_db, pure>>

LoginPanelOpen(s) ==
    /\ Running(s)
    /\ session_state[s].authed_user = None
    /\ session_state[s].show_login

\* the login button of login_panel, with the name and password typed and the
\* remember-me box, in a run whose load_auth_db returned db
LoginRun(s, db, u, p, remember) ==
    LET uu == normalize_username(u) IN
    /\ LoginPanelOpen(s)
    /\ remember => token_ctr < MaxTokens
    /\ IF uu = None \/ uu \notin DOMAIN db
       THEN UNCHANGED other_vars
       ELSE IF ~verify_password(p, db[uu].salt, db[uu].hash)
       THEN UNCHANGED other_vars
       ELSE LET d  == ensure_user_storage(disk[user_dir(uu)], uu)
                ss == login(session_state[s], d, uu)
            IN  /\ disk' = [disk EXCEPT ![user_dir(uu)] = d]
                /\ IF ~ss.loaded
                   THEN \* load_user_state raised: the run ends there
                        /\ session_state' = [session_state EXCEPT ![s] = ss]
                        /\ UNCHANGED <<auth_db, cookie, token_ctr, issued, live>>
                   ELSE /\ session_state' =
                               [session_state EXCEPT ![s] = [ss EXCEPT !.show_login = FALSE]]
                        /\ IF remember
                           THEN LET raw == RawToken(token_ctr + 1) IN
                                /\ auth_db' = create_or_rotate_session_token(db, uu, raw)
                                /\ token_ctr' = token_ctr + 1
                                /\ cookie' = [cookie EXCEPT
                                                ![s] = make_session_cookie_value(uu, raw)]
                                /\ issued' = issued \cup {<<uu, raw>>}
                                /\ live' = [live EXCEPT ![uu] = raw]
                           ELSE UNCHANGED <<auth_db, cookie, token_ctr, issued, live>>
                /\ UNCHANGED <<max_assigned, auto_login, logged_out, pure>>

\* the run reads the db and handles the button with no other run in between
Login(s, u, p, remember) ==
    /\ LoginRun(s, auth_db, u, p, remember)
    /\ UNCHANGED run_db

\* the register button of login_panel, in a run whose load_auth_db returned db
RegisterRun(s, db, u, p1, p2, salt) ==
    LET uu == normalize_username(u)
        h  == pbkdf2_hash_password(p1, salt)
    IN
    /\ LoginPanelOpen(s)
    /\ IF uu = None \/ uu \in DOMAIN db \/ Len(p1) < 6 \/ p1 /= p2
       THEN UNCHANGED other_vars
       ELSE /\ auth_db' =
                 [x \in DOMAIN db \cup {uu} |->
                    IF x = uu
                    THEN [salt |-> h.salt, hash |-> h.hash, session_token_hash |-> <<>>]
                    ELSE db[x]]
            /\ disk' = [disk EXCEPT ![user_dir(uu)] = ensure_user_storage(@, uu)]
            /\ UNCHANGED <<cookie, session_state, token_ctr, issued, max_assigned,
                           live, auto_login, logged_out, pure>>

Register(s, u, p1, p2, salt) ==
    /\ RegisterRun(s, auth_db, u, p1, p2, salt)
    /\ UNCHANGED run_db

\* the logout button of the top bar
Logout(s) ==
    /\ Running(s)
    /\ session_state[s].authed_user /= None
    /\ session_state' = [session_state EXCEPT ![s] = logout(@)]
    /\ cookie' = [cookie EXCEPT ![s] = <<>>]
    /\ logged_out' = logged_out \cup
          {c \in issued : /\ c[1] = USERNAME(s)
                          /\ cookie[s] = make_session_cookie_value(c[1], c[2])}
    /\ UNCHANGED <<auth_db, disk, token_ctr, issued, max_assigned, live, auto_login,
                   run_db, pure>>

\* a rerun of a logged-in session that holds no ledger (lines 486-487)
Rerun(s) ==
    /\ Running(s)
    /\ session_state[s].authed_user /= None
    /\ ~session_state[s].loaded
    /\ session_state' =
          [session_state EXCEPT ![s] = load_user_state(@, disk[user_dir(USERNAME(s))], USERNAME(s))]
    /\ UNCHANGED <<auth_db, disk, cookie, token_ctr, issued, max_assigned, live,
                   auto_login, logged_out, run_db, pure>>

\* the "clear remember me" button, in a handler whose load_auth_db returned db
ClearRememberRun(s, db) ==
    /\ InLedger(s)
    /\ auth_db' = IF USERNAME(s) \in DOMAIN db
                  THEN [db EXCEPT ![USERNAME(s)].session_token_hash = <<>>]
                  ELSE auth_db
    /\ cookie' = [cookie EXCEPT ![s] = <<>>]
    /\ live' = [live EXCEPT ![USERNAME(s)] = <<>>]
    /\ UNCHANGED <<disk, session_state, token_ctr, issued, max_assigned, auto_login,
                   logged_out, pure>>

ClearRemember(s) ==
    /\ ClearRememberRun(s, auth_db)
    /\ UNCHANGED run_db

\* Streamlit runs every session's script in a thread of its own, so between
\* a run's load_auth_db and its save_auth_db other sessions' runs may read and
\* write the file.  LoadAuthDb is the read (line 402, or line 764 in the
\* clear handler); the actions after it are the rest of the run, on the db
\* that was read.
LoadAuthDb(s) ==
    /\ LoginPanelOpen(s) \/ InLedger(s)
    /\ run_db[s] = NotLoaded
    /\ run_db' = [run_db EXCEPT ![s] = Loaded(auth_db)]
    /\ UNCHANGED other_vars

LoginSave(s, u, p, remember) ==
    /\ run_db[s] /= NotLoaded
    /\ LoginRun(s, run_db[s][1], u, p, remember)
    /\ run_db' = [run_db EXCEPT ![s] = NotLoaded]

RegisterSave(s, u, p1, p2, salt) ==
    /\ run_db[s] /= NotLoaded
    /\ RegisterRun(s, run_db[s][1], u, p1, p2, salt)
    /\ run_db' = [run_db EXCEPT ![s] = NotLoaded]

ClearRememberSave(s) ==
    /\ run_db[s] /= NotLoaded
    /\ ClearRememberRun(s, run_db[s][1])
    /\ run_db' = [run_db EXCEPT ![s] = NotLoaded]

\* The cookie a browser sends is whatever its user has put there: a name, a
\* token and a signature from those below, or fewer fields.  The application
\* reads the cookie in the first run of a session only, so the browser's
\* cookie is set before that run.
CookieTokens == {RawToken(n) : n \in 1..MaxTokens}
CookieValues ==
    {make_session_cookie_value(<<"a">>, t) : t \in CookieTokens}
        \cup { make_session_cookie_value(<<"A">>, RawToken(1)),
               <<"a", "|">> \o RawToken(1) \o <<"|", "x">>,
               <<"a", "|">> \o RawToken(1) }

SetCookie(s, v) ==
    /\ ~Running(s)
    /\ cookie[s] /= v
    /\ cookie' = [cookie EXCEPT ![s] = v]
    /\ UNCHANGED <<auth_db, disk, session_state, token_ctr, issued, max_assigned,
                   live, auto_login, logged_out, run_db, pure>>

(***************************************************************************)
(* Ledger actions (src/main.py 492-769)                                    *)
(***************************************************************************)
FailPoints == 0..3

\* what the form, the editor and the settings panel are given
AmountInputs == {<<>>, <<"5">>, <<"-", "5">>, <<"1", "-", "5">>}
ItemInputs == {<<"n", "a", "n">>}
TypeOptions == {EXPENSE, INCOME}
NicknameInputs == {<<" ">>, <<"n", " ">>}
InitBalanceInputs == {7}

Max2(a, b) == IF a >= b THEN a ELSE b

\* dates in calendar order
DateRank(d) == IF d = "d1" THEN 1 ELSE 2

\* sort key of the editor's table: date, then ID, both descending
Before(r1, r2) ==
    \/ DateRank(r1.date) > DateRank(r2.date)
    \/ r1.date = r2.date /\ r1.ID > r2.ID

RECURSIVE InsertSorted(_, _)
InsertSorted(r, sorted) ==
    IF sorted = <<>> THEN <<r>>
    ELSE IF Before(r, Head(sorted)) THEN <<r>> \o sorted
    ELSE <<Head(sorted)>> \o InsertSorted(r, Tail(sorted))

RECURSIVE SortView(_)
SortView(df) ==
    IF df = <<>> THEN <<>>
    ELSE InsertSorted(df[Len(df)], SortView(SubSeq(df, 1, Len(df) - 1)))

\* the table the editor shows: the ledger sorted, then cut by the type filter
\* (the book, category and keyword filters cut it the same way)
View(records, type_filter) ==
    LET InFilter(r) == r.type \in type_filter
    IN  SelectSeq(SortView(prepare_for_editor(records)), InFilter)

\* a persist that writes the session's ledger into every user's directory
Persisted_everywhere(s, ss, failAt) ==
    [d \in DOMAIN disk |-> persist_user_state(disk[d], ss, USERNAME(s), failAt)]

\* the handler's persist_user_state and what an exception in it leaves behind
Persisted(s, ss, failAt) ==
    [disk EXCEPT ![user_dir(USERNAME(s))] = persist_user_state(@, ss, USERNAME(s), failAt)]

\* the sidebar form's submit handler (lines 510-529)
Submit(s, amt_input, t_type, item, failAt) ==
    LET amt     == parse_amount(amt_input)
        records == session_state[s].records
        new_row == [ID |-> next_id(records), date |-> "d1", item |-> item,
                    amount |-> amt.value, type |-> t_type]
        ss      == [session_state[s] EXCEPT
                       !.records = prepare_for_editor(records \o <<new_row>>)]
    IN
    /\ InLedger(s)
    /\ next_id(records) <= MaxId
    /\ IF amt.raised
       THEN UNCHANGED vars
       ELSE /\ session_state' = [session_state EXCEPT ![s] = ss]
            /\ disk' = Persisted(s, ss, failAt)
            /\ max_assigned' = [max_assigned EXCEPT
                                  ![USERNAME(s)] = Max2(@, new_row.ID)]
            /\ UNCHANGED <<auth_db, cookie, token_ctr, issued, live, auto_login, logged_out, run_db, pure>>

\* What the user does to one row of the editor; a cleared cell is a missing one.
EditKinds ==
    {"negative", "clear_amount", "clear_type", "to_income", "clear_date",
     "later_date", "item_none"}

ApplyEdit(r, kind) ==
    CASE kind = "negative"     -> [r EXCEPT !.amount = 0 - 5 * Unit]
      [] kind = "clear_amount" -> [k \in DOMAIN r \ {"amount"} |-> r[k]]
      [] kind = "clear_type"   -> [k \in DOMAIN r \ {"type"} |-> r[k]]
      [] kind = "to_income"    -> [r EXCEPT !.type = INCOME]
      [] kind = "clear_date"   -> [r EXCEPT !.date = NaT]
      [] kind = "later_date"   -> [r EXCEPT !.date = "d2"]
      [] kind = "item_none"    -> [r EXCEPT !.item = <<"N", "o", "n", "e">>]

\* the last row of edited2 with the ID of r, r itself when there is none
Updated(r, edited2) ==
    LET hits == {j \in 1..Len(edited2) : edited2[j].ID = r.ID}
    IN  IF hits = {} THEN r ELSE edited2[SetMax(hits)]

\* the "save edits" handler (lines 613-626), row k of the view edited
SaveEdits(s, type_filter, k, kind, failAt) ==
    LET records == session_state[s].records
        view    == View(records, type_filter)
        edited  == [view EXCEPT ![k] = ApplyEdit(@, kind)]
        edited2 == prepare_for_editor(edited)
        full2   == prepare_for_editor(records)
        full3   == [i \in 1..Len(full2) |-> Updated(full2[i], edited2)]
        ss      == [session_state[s] EXCEPT !.records = prepare_for_editor(full3)]
    IN
    /\ InLedger(s)
    /\ k \in 1..Len(view)
    /\ session_state' = [session_state EXCEPT ![s] = ss]
    /\ disk' = Persisted(s, ss, failAt)
    /\ UNCHANGED <<auth_db, cookie, token_ctr, issued, max_assigned, live,
                   auto_login, logged_out, run_db, pure>>

\* a delete handler that keeps the rows of the filtered view only
Delete_from_view(s, type_filter, del_ids, failAt) ==
    LET records == session_state[s].records
        view    == View(records, type_filter)
        Kept(r) == r.ID \notin del_ids
        ss      == [session_state[s] EXCEPT
                       !.records = prepare_for_editor(SelectSeq(view, Kept))]
    IN
    /\ InLedger(s)
    /\ del_ids /= {}
    /\ del_ids \subseteq Ids(view)
    /\ session_state' = [session_state EXCEPT ![s] = ss]
    /\ disk' = Persisted(s, ss, failAt)
    /\ UNCHANGED <<auth_db, cookie, token_ctr, issued, max_assigned, live,
                   auto_login, logged_out, run_db, pure>>

\* the "delete checked rows" handler (lines 628-640)
Delete(s, type_filter, del_ids, failAt) ==
    LET records == session_state[s].records
        view    == View(records, type_filter)
        Kept(r) == r.ID \notin del_ids
        full2   == SelectSeq(prepare_for_editor(records), Kept)
        ss      == [session_state[s] EXCEPT !.records = prepare_for_editor(full2)]
    IN
    /\ InLedger(s)
    /\ del_ids /= {}
    /\ del_ids \subseteq Ids(view)
    /\ session_state' = [session_state EXCEPT ![s] = ss]
    /\ disk' = Persisted(s, ss, failAt)
    /\ UNCHANGED <<auth_db, cookie, token_ctr, issued, max_assigned, live,
                   auto_login, logged_out, run_db, pure>>

\* Rows of an uploaded CSV: the date, amount and type cells as text.
ImportRowInputs ==
    { [date |-> "d1", amount |-> <<"5">>, type |-> <<"I", "N", " ">>],
      [date |-> "d1", amount |-> <<"-", "5">>, type |-> <<"o">>],
      [date |-> NaT, item |-> <<"t">>, amount |-> <<"5">>, type |-> <<"i", "n">>],
      [date |-> "d2", item |-> <<"t">>, amount |-> <<"1", "-", "5">>, type |-> <<"-">>] }

MaxImportRows == 2

\* an uploaded file: its rows, and which of the amount and type columns it has
ImportFiles ==
    [rows : UNION {[1..k -> ImportRowInputs] : k \in 0..MaxImportRows},
     cols : {{"amount", "type"}, {"amount"}, {"type"}}]

Abs(x) == IF x < 0 THEN 0 - x ELSE x

AmountRaises(r) == parse_amount(r.amount).raised

\* one row of tmp (lines 708-720); a missing text cell reads "nan"
ImportedRow(r, id) ==
    [ID     |-> id,
     date   |-> r.date,
     item   |-> Cell(r, "item", <<"n", "a", "n">>),
     amount |-> Abs(parse_amount(r.amount).value),
     type   |-> IF normalize_type(r.type) \in {INCOME, EXPENSE}
                THEN normalize_type(r.type) ELSE EXPENSE]

\* the CSV import handler (lines 702-728)
Import(s, file, failAt) ==
    LET records == session_state[s].records
        kept    == SelectSeq(file.rows, HasDate)
        start   == next_id(records)
        tmp     == prepare_for_editor(
                       [i \in 1..Len(kept) |-> ImportedRow(kept[i], start + i - 1)])
        ss      == [session_state[s] EXCEPT
                       !.records = prepare_for_editor(prepare_for_editor(records) \o tmp)]
    IN
    /\ InLedger(s)
    /\ start + Len(kept) - 1 <= MaxId
    /\ IF \/ file.cols /= {"amount", "type"}       \* .astype on the default raises
          \/ \E i \in 1..Len(file.rows) : AmountRaises(file.rows[i])
       THEN UNCHANGED vars
       ELSE /\ session_state' = [session_state EXCEPT ![s] = ss]
            /\ disk' = Persisted(s, ss, failAt)
            /\ max_assigned' = [max_assigned EXCEPT
                                  ![USERNAME(s)] = Max2(@, start + Len(kept) - 1)]
            /\ UNCHANGED <<auth_db, cookie, token_ctr, issued, live, auto_login, logged_out, run_db, pure>>

SettingsFailPoints == 0..4     \* 4: the handler's own write of config.json raises

\* the "save settings" handler (lines 743-758)
SaveSettings(s, new_nickname, new_init, failAt) ==
    LET ss == [session_state[s] EXCEPT
                 !.nickname = IF Strip(new_nickname) /= <<>>
                              THEN Strip(new_nickname) ELSE USERNAME(s),
                 !.init_balance = new_init]
        d  == [disk[user_dir(USERNAME(s))] EXCEPT !.config = Config(ss.init_balance, ss.nickname)]
    IN
    /\ InLedger(s)
    /\ session_state' = [session_state EXCEPT ![s] = ss]
    /\ disk' = IF failAt = 4 THEN disk
               ELSE [disk EXCEPT ![user_dir(USERNAME(s))] = persist_user_state(d, ss, USERNAME(s), failAt)]
    /\ UNCHANGED <<auth_db, cookie, token_ctr, issued, max_assigned, live,
                   auto_login, logged_out, run_db, pure>>

(***************************************************************************)
(* The system                                                              *)
(***************************************************************************)
\* The data directory is kept across runs of the app (mkdir(exist_ok=True),
\* AUTH_PATH.exists()): it starts empty, or holding users whose files an
\* earlier run wrote, here with empty ledgers.
Provisioned(u) ==
    [records |-> Table(<<>>), budgets |-> Table(<<>>), config |-> Config(0, u)]

Account(password, salt) ==
    [salt |-> salt, hash |-> pbkdf2_hash_password(password, salt).hash,
     session_token_hash |-> <<>>]

Idle == arg = <<>> /\ ret = <<>>

Init ==
    /\ \E P \in SUBSET Usernames :
          /\ auth_db = [u \in P |-> Account("secret1", "salt1")]
          /\ disk = [d \in Dirs |->
                       IF \E u \in P : user_dir(u) = d
                       THEN Provisioned(CHOOSE u \in P : user_dir(u) = d)
                       ELSE NoFiles]
    /\ cookie = [s \in Sessions |-> <<>>]
    /\ session_state = [s \in Sessions |-> NewSession]
    /\ token_ctr = 0
    /\ issued = {}
    /\ logged_out = {}
    /\ run_db = [s \in Sessions |-> NotLoaded]
    /\ max_assigned = [u \in Usernames |-> 0]
    /\ live = [u \in Usernames |-> <<>>]
    /\ auto_login = [s \in Sessions |-> NoAutoLogin]
    /\ Idle

Next ==
    \/ \E s \in Sessions : OpenSession(s)
    \/ \E s \in Sessions : ShowLogin(s)
    \/ \E s \in Sessions, u \in UsernameInputs, p \in PasswordInputs, r \in BOOLEAN :
          Login(s, u, p, r)
    \/ \E s \in Sessions, u \in UsernameInputs, p1, p2 \in PasswordInputs, salt \in Salts :
          Register(s, u, p1, p2, salt)
    \/ \E s \in Sessions : Logout(s)
    \/ \E s \in Sessions : Rerun(s)
    \/ \E s \in Sessions : ClearRemember(s)
    \/ \E s \in Sessions, v \in CookieValues : SetCookie(s, v)
    \/ \E s \in Sessions, a \in AmountInputs, t \in TypeOptions, i \in ItemInputs,
          f \in FailPoints : Submit(s, a, t, i, f)
    \/ \E s \in Sessions, tf \in SUBSET TypeOptions, k \in 1..MaxId, e \in EditKinds,
          f \in FailPoints : SaveEdits(s, tf, k, e, f)
    \/ \E s \in Sessions, tf \in SUBSET TypeOptions, ids \in SUBSET (1..MaxId),
          f \in FailPoints : Delete(s, tf, ids, f)
    \/ \E s \in Sessions, file \in ImportFiles, f \in FailPoints : Import(s, file, f)
    \/ \E s \in Sessions, n \in NicknameInputs, b \in InitBalanceInputs,
          f \in SettingsFailPoints : SaveSettings(s, n, b, f)

Spec == Init /\ [][Next]_vars

(***************************************************************************)
(* The ledger of one user in one browser, every write succeeding           *)
(***************************************************************************)
LedgerSessions == {"s1"}

InitLedger ==
    /\ auth_db = [u \in {<<"a">>} |-> Account("secret1", "salt1")]
    /\ disk = [d \in Dirs |->
                 IF d = user_dir(<<"a">>) THEN Provisioned(<<"a">>) ELSE NoFiles]
    /\ cookie = [s \in Sessions |-> <<>>]
    /\ session_state = [s \in Sessions |-> NewSession]
    /\ token_ctr = 0
    /\ issued = {}
    /\ logged_out = {}
    /\ run_db = [s \in Sessions |-> NotLoaded]
    /\ max_assigned = [u \in Usernames |-> 0]
    /\ live = [u \in Usernames |-> <<>>]
    /\ auto_login = [s \in Sessions |-> NoAutoLogin]
    /\ Idle

NextLedger ==
    \/ \E s \in LedgerSessions : OpenSession(s)
    \/ \E s \in LedgerSessions : ShowLogin(s)
    \/ \E s \in LedgerSessions, u \in UsernameInputs, p \in PasswordInputs :
          Login(s, u, p, FALSE)
    \/ \E s \in LedgerSessions : Logout(s)
    \/ \E s \in LedgerSessions, a \in AmountInputs, t \in TypeOptions, i \in ItemInputs :
          Submit(s, a, t, i, 0)
    \/ \E s \in LedgerSessions, tf \in SUBSET TypeOptions, k \in 1..MaxId, e \in EditKinds :
          SaveEdits(s, tf, k, e, 0)
    \/ \E s \in LedgerSessions, tf \in SUBSET TypeOptions, ids \in SUBSET (1..MaxId) :
          Delete(s, tf, ids, 0)
    \/ \E s \in LedgerSessions, file \in ImportFiles : Import(s, file, 0)
    \/ \E s \in LedgerSessions, n \in NicknameInputs, b \in InitBalanceInputs :
          SaveSettings(s, n, b, 0)

SpecLedger == InitLedger /\ [][NextLedger]_vars

(***************************************************************************)
(* The same ledger with writes that may raise, on fewer inputs             *)
(***************************************************************************)
FailAmountInputs == {<<"5">>, <<"1", "-", "5">>}
FailImportFiles ==
    { [rows |-> <<[date |-> "d1", item |-> <<"t">>, amount |-> <<"5">>,
                   type |-> <<"i", "n">>]>>,
       cols |-> {"amount", "type"}] }

NextFail ==
    \/ \E s \in LedgerSessions : OpenSession(s)
    \/ \E s \in LedgerSessions : ShowLogin(s)
    \/ \E s \in LedgerSessions : Login(s, <<"a">>, "secret1", FALSE)
    \/ \E s \in LedgerSessions : Logout(s)
    \/ \E s \in LedgerSessions, a \in FailAmountInputs, f \in FailPoints :
          Submit(s, a, EXPENSE, <<"t">>, f)
    \/ \E s \in LedgerSessions, k \in 1..MaxId, f \in FailPoints :
          SaveEdits(s, TypeOptions, k, "to_income", f)
    \/ \E s \in LedgerSessions, ids \in SUBSET (1..MaxId), f \in FailPoints :
          Delete(s, TypeOptions, ids, f)
    \/ \E s \in LedgerSessions, file \in FailImportFiles, f \in FailPoints :
          Import(s, file, f)
    \/ \E s \in LedgerSessions, f \in SettingsFailPoints :
          SaveSettings(s, <<"n">>, 7, f)

SpecFail == InitLedger /\ [][NextFail]_vars

(***************************************************************************)
(* Authentication in two browsers: user a holds files, user b does not     *)
(***************************************************************************)
NextAuth ==
    \/ \E s \in Sessions : OpenSession(s)
    \/ \E s \in Sessions : ShowLogin(s)
    \/ \E s \in Sessions, u \in UsernameInputs, p \in PasswordInputs, r \in BOOLEAN :
          Login(s, u, p, r)
    \/ \E s \in Sessions, u \in UsernameInputs, p1, p2 \in PasswordInputs, salt \in Salts :
          Register(s, u, p1, p2, salt)
    \/ \E s \in Sessions : Logout(s)
    \/ \E s \in Sessions : Rerun(s)
    \/ \E s \in Sessions : ClearRemember(s)
    \/ \E s \in Sessions, v \in CookieValues : SetCookie(s, v)

SpecAuth == InitLedger /\ [][NextAuth]_vars

(***************************************************************************)
(* The ledger under every view filter, with few amounts and files          *)
(***************************************************************************)
\* the edits that touch an entry's date or type, which decide where it is shown
ViewEditKinds == {"clear_date", "later_date", "to_income", "clear_type"}

NextEntries ==
    \/ \E s \in LedgerSessions : OpenSession(s)
    \/ \E s \in LedgerSessions : ShowLogin(s)
    \/ \E s \in LedgerSessions : Login(s, <<"a">>, "secret1", FALSE)
    \/ \E s \in LedgerSessions : Logout(s)
    \/ \E s \in LedgerSessions, a \in FailAmountInputs, t \in TypeOptions :
          Submit(s, a, t, <<"t">>, 0)
    \/ \E s \in LedgerSessions, tf \in SUBSET TypeOptions, k \in 1..MaxId,
          e \in ViewEditKinds :
          SaveEdits(s, tf, k, e, 0)
    \/ \E s \in LedgerSessions, tf \in SUBSET TypeOptions, ids \in SUBSET (1..MaxId) :
          Delete(s, tf, ids, 0)
    \/ \E s \in LedgerSessions, file \in FailImportFiles : Import(s, file, 0)
    \/ \E s \in LedgerSessions : SaveSettings(s, <<"n">>, 7, 0)

SpecEntries == InitLedger /\ [][NextEntries]_vars

(***************************************************************************)
(* Two users with a ledger each, and one browser they use in turn          *)
(***************************************************************************)
InitIsolation ==
    /\ auth_db = [u \in Usernames |->
                    Account(IF u = <<"a">> THEN "secret1" ELSE "secret2", "salt1")]
    /\ disk = [d \in Dirs |-> Provisioned(CHOOSE u \in Usernames : user_dir(u) = d)]
    /\ cookie = [s \in Sessions |-> <<>>]
    /\ session_state = [s \in Sessions |-> NewSession]
    /\ token_ctr = 0
    /\ issued = {}
    /\ logged_out = {}
    /\ run_db = [s \in Sessions |-> NotLoaded]
    /\ max_assigned = [u \in Usernames |-> 0]
    /\ live = [u \in Usernames |-> <<>>]
    /\ auto_login = [s \in Sessions |-> NoAutoLogin]
    /\ Idle

NextIsolation ==
    \/ \E s \in LedgerSessions : OpenSession(s)
    \/ \E s \in LedgerSessions : ShowLogin(s)
    \/ \E s \in LedgerSessions, u \in Usernames, p \in {"secret1", "secret2"} :
          Login(s, u, p, FALSE)
    \/ \E s \in LedgerSessions : Logout(s)
    \/ \E s \in LedgerSessions : Submit(s, <<"5">>, EXPENSE, <<"t">>, 0)
    \/ \E s \in LedgerSessions, k \in 1..MaxId : SaveEdits(s, TypeOptions, k, "to_income", 0)
    \/ \E s \in LedgerSessions, ids \in SUBSET (1..MaxId) : Delete(s, TypeOptions, ids, 0)
    \/ \E s \in LedgerSessions, file \in FailImportFiles : Import(s, file, 0)
    \/ \E s \in LedgerSessions : SaveSettings(s, <<"n">>, 7, 0)

SpecIsolation == InitIsolation /\ [][NextIsolation]_vars

(***************************************************************************)
(* Two sessions whose runs interleave between load_auth_db and             *)
(* save_auth_db                                                            *)
(***************************************************************************)
\* no run of s is between its load_auth_db and the end of its handler
NoRun(s) == run_db[s] = NotLoaded

NextRace ==
    \/ \E s \in Sessions : NoRun(s) /\ OpenSession(s)
    \/ \E s \in Sessions : NoRun(s) /\ ShowLogin(s)
    \/ \E s \in Sessions : NoRun(s) /\ Logout(s)
    \/ \E s \in Sessions : LoadAuthDb(s)
    \/ \E s \in Sessions, u \in Usernames, p \in {"secret1", "secret2"}, r \in BOOLEAN :
          LoginSave(s, u, p, r)
    \/ \E s \in Sessions, p2 \in {"secret2", "short"} :
          RegisterSave(s, <<"b">>, "secret2", p2, "salt1")
    \/ \E s \in Sessions : ClearRememberSave(s)

SpecRace == InitLedger /\ [][NextRace]_vars

(***************************************************************************)
(* Pure-function specifications: Init draws the argument, the one action   *)
(* applies the function.                                                   *)
(***************************************************************************)
Pending == <<>>                  \* ret before the call; <<r>> after it

AmountAlphabet == {"1", "5", ".", "-", " ", "$"}
AmountTexts == Texts(AmountAlphabet, MaxAmtLen)

TypeAlphabet == {"i", "n", "I", "N", "o", "u", "t", " ", "+", "-", "shou", "zhi"}
TypeTexts == Texts(TypeAlphabet, MaxTypeLen)

\* the system at rest while a pure function is called
SysIdle ==
    /\ auth_db = <<>>
    /\ disk = [d \in Dirs |-> NoFiles]
    /\ cookie = [s \in Sessions |-> <<>>]
    /\ session_state = [s \in Sessions |-> NewSession]
    /\ token_ctr = 0
    /\ issued = {}
    /\ logged_out = {}
    /\ run_db = [s \in Sessions |-> NotLoaded]
    /\ max_assigned = [u \in Usernames |-> 0]
    /\ live = [u \in Usernames |-> <<>>]
    /\ auto_login = [s \in Sessions |-> NoAutoLogin]

InitAmount == arg \in AmountTexts /\ ret = Pending /\ SysIdle

CallParseAmount ==
    /\ ret = Pending
    /\ ret' = <<parse_amount(arg)>>
    /\ UNCHANGED <<arg, sys_vars>>

NextAmount == CallParseAmount

SpecAmount == InitAmount /\ [][NextAmount]_vars

InitType == arg \in TypeTexts /\ ret = Pending /\ SysIdle

CallNormalizeType ==
    /\ ret = Pending
    /\ ret' = <<normalize_type(arg)>>
    /\ UNCHANGED <<arg, sys_vars>>

NextType == CallNormalizeType

SpecType == InitType /\ [][NextType]_vars

(***************************************************************************)
(* Claims                                                                  *)
(***************************************************************************)
AllRows(rows, P(_)) == \A i \in 1..Len(rows) : P(rows[i])

\* C1: every ID given to a new entry, by the form or by an import, is greater
\* than every ID ever assigned before in that user's ledger, deleted entries
\* included.
C1_IdsNeverReused ==
    [][\A s \in LedgerSessions :
          ( \/ \E a \in AmountInputs, t \in TypeOptions, i \in ItemInputs :
                  Submit(s, a, t, i, 0)
            \/ \E file \in ImportFiles : Import(s, file, 0) )
          => \A id \in Ids(session_state'[s].records) \ Ids(session_state[s].records) :
                id > max_assigned[USERNAME(s)]]_vars

UniqueIds(rows) == \A i, j \in 1..Len(rows) : rows[i].ID = rows[j].ID => i = j

\* C2: no two entries of a user's ledger, in st.session_state.records or in
\* the persisted records.csv, have the same ID.
C2_IdsUnique ==
    /\ \A s \in Sessions : UniqueIds(session_state[s].records)
    /\ \A u \in Usernames : UniqueIds(disk[user_dir(u)].records.rows)

\* a saved ledger of two entries, one of them edited to a later date
C2_Witness ==
    \E s \in Sessions :
        /\ InLedger(s)
        /\ Len(session_state[s].records) = 2
        /\ Len(disk[user_dir(USERNAME(s))].records.rows) = 2
        /\ session_state[s].records[1].ID /= session_state[s].records[2].ID
        /\ \E i \in 1..2 : session_state[s].records[i].date = "d2"

NonNegative(r) == r.amount >= 0

\* C3: every entry stored in a user's ledger has amount >= 0.
C3_AmountsNonNegative ==
    /\ \A s \in Sessions : AllRows(session_state[s].records, NonNegative)
    /\ \A u \in Usernames : AllRows(disk[user_dir(u)].records.rows, NonNegative)

Canonical(r) == "type" \in DOMAIN r /\ r.type \in {INCOME, EXPENSE}

\* C4: every entry of a user's ledger, in memory and persisted, has a type
\* that is one of the two canonical values.
C4_TypesCanonical ==
    /\ \A s \in Sessions : AllRows(session_state[s].records, Canonical)
    /\ \A u \in Usernames : AllRows(disk[user_dir(u)].records.rows, Canonical)

\* a persisted ledger holding an income entry and an expense entry
C4_Witness ==
    \E s \in Sessions :
        /\ InLedger(s)
        /\ \E i, j \in 1..Len(session_state[s].records) :
              /\ session_state[s].records[i].type = INCOME
              /\ session_state[s].records[j].type = EXPENSE
        /\ disk[user_dir(USERNAME(s))].records = ToCsv(session_state[s].records)

\* the password p verifies against the salt and hash stored for u
PasswordVerifies(u, p) ==
    /\ u \in DOMAIN auth_db
    /\ pbkdf2_hash_password(p, auth_db[u].salt).hash = auth_db[u].hash

\* the cookie v has three fields, is signed with the HMAC of the first two,
\* names u, and its token hashes to the non-empty hash stored for u
CookieVerifies(v, u) ==
    LET parts == Split(v) IN
    /\ Len(parts) = 3
    /\ parts[3] = sign_token(parts[1] \o <<"|">> \o parts[2])
    /\ normalize_username(parts[1]) = u
    /\ u \in DOMAIN auth_db
    /\ auth_db[u].session_token_hash /= <<>>
    /\ auth_db[u].session_token_hash = TokenHash(parts[2])

\* C5: a session becomes authenticated as u only in a login step whose
\* password verifies for u or in a first run whose cookie verifies for u;
\* a session that is not authenticated holds no ledger.
C5_AuthSafety ==
    [][\A s \in Sessions :
          LET u == session_state'[s].authed_user IN
          /\ (u /= None /\ session_state[s].authed_user /= u) =>
                \/ \E nm \in UsernameInputs, p \in PasswordInputs, r \in BOOLEAN :
                      /\ Login(s, nm, p, r)
                      /\ normalize_username(nm) = u
                      /\ PasswordVerifies(u, p)
                \/ OpenSession(s) /\ CookieVerifies(cookie[s], u)
          /\ u = None => /\ ~session_state'[s].loaded
                         /\ session_state'[s].records = <<>>]_vars

\* one session logged in by its cookie, another by a password
C5_Witness ==
    \E s, t \in Sessions :
        /\ session_state[s].authed_user /= None
        /\ auto_login[s].outcome = "login"
        /\ session_state[t].authed_user /= None
        /\ auto_login[t].outcome = "none"

\* C6: an issued cookie parses back to its username and raw token, and a new
\* session given the cookie of u's live token is logged in as u.
C6_CookieRoundTrip ==
    [][/\ \A c \in issued' :
             parse_session_cookie_value(make_session_cookie_value(c[1], c[2])) = c
       /\ \A s \in Sessions : \A c \in issued :
             ( /\ cookie[s] = c[1] \o <<"|">> \o c[2] \o <<"|">>
                                 \o sign_token(c[1] \o <<"|">> \o c[2])
               /\ live[c[1]] = c[2]
               /\ OpenSession(s) )
             => /\ session_state'[s].authed_user = c[1]
                /\ session_state'[s].loaded]_vars

\* a session logged in by an issued cookie
C6_Witness ==
    \E s \in Sessions :
        /\ session_state[s].authed_user /= None
        /\ session_state[s].loaded
        /\ auto_login[s] = [outcome |-> "login", issued |-> TRUE]

\* C7: a new session given a cookie that was issued for u and whose token has
\* since been rotated or cleared is not logged in.
C7_StaleCookieRejected ==
    [][\A s \in Sessions : \A c \in issued :
          ( /\ cookie[s] = make_session_cookie_value(c[1], c[2])
            /\ live[c[1]] /= c[2]
            /\ OpenSession(s) )
          => /\ session_state'[s].authed_user = None
             /\ ~session_state'[s].loaded]_vars

\* a session whose first run turned an issued cookie down, after a rotation
C7_Witness ==
    \E s \in Sessions :
        /\ session_state[s].authed_user = None
        /\ auto_login[s] = [outcome |-> "delete", issued |-> TRUE]
        /\ Cardinality(issued) = 2

\* C8: an interaction in which a write of persist_user_state raises leaves
\* the persisted records, budgets and config as they were.
C8_FailureLeavesDiskUntouched ==
    [][\A s \in LedgerSessions : \A f \in 1..3 :
          ( \/ \E a \in FailAmountInputs : Submit(s, a, EXPENSE, <<"t">>, f)
            \/ \E k \in 1..MaxId : SaveEdits(s, TypeOptions, k, "to_income", f)
            \/ \E ids \in SUBSET (1..MaxId) : Delete(s, TypeOptions, ids, f)
            \/ \E file \in FailImportFiles : Import(s, file, f)
            \/ SaveSettings(s, <<"n">>, 7, f) )
          => disk' = disk]_vars

\* C9: parse_amount returns a number for every text and never raises.
C9_ParseAmountTotal == ret /= Pending => ~ret[1].raised

\* s[i..j] is s without its leading and trailing spaces
IsTrim(s, i, j) ==
    /\ \A k \in 1..(i - 1) : s[k] = " "
    /\ \A k \in (j + 1)..Len(s) : s[k] = " "
    /\ i <= j => (s[i] /= " " /\ s[j] /= " ")
    /\ i > j => (i = Len(s) + 1 /\ j = Len(s))

\* C10: normalize_type returns the income value exactly for the texts that,
\* trimmed and lowercased, are income synonyms, the expense value exactly for
\* those that are expense synonyms, and the empty value for every other text.
C10_WholeStringMatch ==
    ret /= Pending =>
        \E i \in 1..(Len(arg) + 1), j \in 0..Len(arg) :
            /\ IsTrim(arg, i, j)
            /\ LET t == Lower(SubSeq(arg, i, j)) IN
               /\ ret[1] = INCOME <=> t \in IncomeSynonyms
               /\ ret[1] = EXPENSE <=> t \in ExpenseSynonyms
               /\ ret[1] = UNKNOWN <=> t \notin IncomeSynonyms \cup ExpenseSynonyms

\* a text that holds a synonym inside it and is mapped to the empty value
C10_Witness ==
    /\ ret = <<UNKNOWN>>
    /\ \E w \in IncomeSynonyms \cup ExpenseSynonyms : Contains(Lower(arg), w)

\* the rows of new are the rows of old whose IDs are not in ids, every field
\* as it was
RemovedExactly(old, new, ids) ==
    /\ Ids(new) = Ids(old) \ ids
    /\ Len(new) = Len(old) - Cardinality(ids)
    /\ \A i \in 1..Len(old) :
          old[i].ID \notin ids => \E j \in 1..Len(new) : new[j] = old[i]

\* C11: an entry leaves a user's ledger, in memory and persisted, only in a
\* delete action in which its ID was checked; that action removes exactly the
\* checked entries, none of those hidden by the filter, and leaves every
\* field of every other entry as it was; a logout and a new login bring
\* back every persisted entry.
C11_DestroyedOnlyByDeletion ==
    [][\A s \in LedgerSessions :
          LET old == session_state[s].records
              new == session_state'[s].records
              u   == session_state'[s].authed_user
          IN
          /\ (new /= old \/ disk' /= disk) =>
                \A tf \in SUBSET TypeOptions, ids \in SUBSET (1..MaxId) :
                    Delete(s, tf, ids, 0) =>
                        /\ ids \subseteq Ids(View(old, tf))
                        /\ RemovedExactly(old, new, ids)
                        /\ RemovedExactly(disk[user_dir(u)].records.rows,
                                          disk'[user_dir(u)].records.rows, ids)
          /\ (InLedger(s) /\ session_state'[s].loaded /\ ~(Ids(old) \subseteq Ids(new))) =>
                \E tf \in SUBSET TypeOptions, ids \in SUBSET (1..MaxId) :
                    Delete(s, tf, ids, 0) /\ Ids(old) \ Ids(new) \subseteq ids
          /\ \A v \in Usernames :
                ~(Ids(disk[user_dir(v)].records.rows) \subseteq Ids(disk'[user_dir(v)].records.rows)) =>
                    \E tf \in SUBSET TypeOptions, ids \in SUBSET (1..MaxId) :
                        /\ Delete(s, tf, ids, 0)
                        /\ USERNAME(s) = v
                        /\ Ids(disk[user_dir(v)].records.rows) \ Ids(disk'[user_dir(v)].records.rows) \subseteq ids
          /\ session_state'[s].loaded =>
                Ids(new) = Ids(disk'[user_dir(u)].records.rows)]_vars

\* a ledger in which IDs 1 and 2 were assigned, one entry was deleted and
\* the other, edited to a later date before, is still there
C11_Witness ==
    \E s \in LedgerSessions :
        /\ InLedger(s)
        /\ max_assigned[USERNAME(s)] = 2
        /\ Len(session_state[s].records) = 1
        /\ session_state[s].records[1].date = "d2"
        /\ disk[user_dir(USERNAME(s))].records = ToCsv(session_state[s].records)

\* C12: a ledger operation of a session logged in as A writes A's records,
\* budgets and config and leaves those of every other registered user as
\* they were; a login as A loads A's persisted ledger; two registered
\* usernames never have the same storage directory.
C12_UserIsolation ==
    [][/\ \A u, v \in DOMAIN auth_db' : user_dir(u) = user_dir(v) => u = v
       /\ \A s \in LedgerSessions :
             LET A == session_state'[s].authed_user IN
             /\ ( \/ Submit(s, <<"5">>, EXPENSE, <<"t">>, 0)
                  \/ \E k \in 1..MaxId : SaveEdits(s, TypeOptions, k, "to_income", 0)
                  \/ \E ids \in SUBSET (1..MaxId) : Delete(s, TypeOptions, ids, 0)
                  \/ \E file \in FailImportFiles : Import(s, file, 0)
                  \/ SaveSettings(s, <<"n">>, 7, 0) )
                => /\ A = session_state[s].authed_user
                   /\ \A B \in DOMAIN auth_db \ {A} :
                         disk'[user_dir(B)] = disk[user_dir(B)]
                   /\ disk'[user_dir(A)].records = ToCsv(session_state'[s].records)
                   /\ disk'[user_dir(A)].config.init_balance
                         = session_state'[s].init_balance
             /\ (A /= None /\ A /= session_state[s].authed_user) =>
                   /\ disk' = disk
                   /\ disk[user_dir(A)].records = ToCsv(session_state'[s].records)
                   /\ disk[user_dir(A)].config.init_balance
                         = session_state'[s].init_balance]_vars

\* two users with different ledgers and settings, one of them logged in
C12_Witness ==
    \E s \in LedgerSessions :
        /\ InLedger(s)
        /\ USERNAME(s) = <<"b">>
        /\ Len(disk[user_dir(<<"a">>)].records.rows) = 2
        /\ Len(disk[user_dir(<<"b">>)].records.rows) = 1
        /\ disk[user_dir(<<"a">>)].config.init_balance
              /= disk[user_dir(<<"b">>)].config.init_balance

\* C13: once a session that holds the cookie issued for u has run logout, a
\* new session given that cookie is not logged in as u.
C13_LogoutEndsRememberedSession ==
    [][\A s \in Sessions : \A c \in logged_out :
          ( /\ cookie[s] = make_session_cookie_value(c[1], c[2])
            /\ OpenSession(s) )
          => session_state'[s].authed_user /= c[1]]_vars

\* C14: no write of the auth db, by a registration, a remember-me login or a
\* clear remember-me of any session, removes a registered user or changes
\* that user's salt or hash.
C14_RegistrationDurable ==
    [][\A u \in DOMAIN auth_db :
          /\ u \in DOMAIN auth_db'
          /\ auth_db'[u].salt = auth_db[u].salt
          /\ auth_db'[u].hash = auth_db[u].hash]_vars

====
